---- MODULE Spec2Model ----
(***************************************************************************)
(* VLM_transcriber: the image batch pipeline of src/gemini_processor.py    *)
(* (GeminiProcessor), the validators of src/validators.py and the upload   *)
(* handler of src/utils.py, driven by main() of src/app.py.                *)
(*                                                                         *)
(* Python values are represented as follows.                               *)
(*   str            a TLA+ string (Len, SubSeq and \o act on its           *)
(*                  characters), an f-string the concatenation of its      *)
(*                  pieces                                                 *)
(*   None / value   <<>> / <<value>> where a value may be None             *)
(*   dict           a record; list a sequence                              *)
(***************************************************************************)
EXTENDS Integers, Sequences, FiniteSets, TLC

\* ------------------------------------------------------------------ bounds

\* longest batch handed to process_images
MaxBatch == 2
\* largest max_retries given to the constructor
MaxRetries == 2
\* most lines of a text handed to _format_medical_data directly
MaxLines == 2

\* ------------------------------------------------------- program constants

\* AppConfig.MAX_IMAGES, and the literal of handle_file_upload
MAX_IMAGES == 100
\* AppConfig.MAX_FILE_SIZE, and the literal of _validate_image and handle_file_upload
MAX_FILE_SIZE == 20 * 1024 * 1024
ALLOWED_EXTENSIONS == {"jpg", "jpeg", "png", "webp"}
\* the list _validate_image compares image.format.lower() with
SUPPORTED_FORMATS == {"jpeg", "jpg", "png", "webp"}

\* ------------------------------------------------------------ Python values

None == <<>>
Some(v) == <<v>>

\* str.lower() on one character
LowerChar(c) ==
    CASE c = "A" -> "a" [] c = "B" -> "b" [] c = "C" -> "c" [] c = "D" -> "d"
      [] c = "E" -> "e" [] c = "F" -> "f" [] c = "G" -> "g" [] c = "H" -> "h"
      [] c = "I" -> "i" [] c = "J" -> "j" [] c = "K" -> "k" [] c = "L" -> "l"
      [] c = "M" -> "m" [] c = "N" -> "n" [] c = "O" -> "o" [] c = "P" -> "p"
      [] c = "Q" -> "q" [] c = "R" -> "r" [] c = "S" -> "s" [] c = "T" -> "t"
      [] c = "U" -> "u" [] c = "V" -> "v" [] c = "W" -> "w" [] c = "X" -> "x"
      [] c = "Y" -> "y" [] c = "Z" -> "z"
      [] OTHER -> c

\* str.lower()
RECURSIVE Lower(_)
Lower(s) ==
    IF s = "" THEN ""
    ELSE LowerChar(SubSeq(s, 1, 1)) \o Lower(SubSeq(s, 2, Len(s)))

\* str.find(sub, start): the first index >= from at which sub occurs in s, 0 if none
RECURSIVE Find(_, _, _)
Find(s, sub, from) ==
    IF from + Len(sub) - 1 > Len(s) THEN 0
    ELSE IF SubSeq(s, from, from + Len(sub) - 1) = sub THEN from
    ELSE Find(s, sub, from + 1)

\* str.rfind(sub): the last index at which sub occurs in s, 0 if none
RECURSIVE RFind(_, _, _)
RFind(s, sub, from) ==
    IF from < 1 THEN 0
    ELSE IF SubSeq(s, from, from + Len(sub) - 1) = sub THEN from
    ELSE RFind(s, sub, from - 1)

\* sub in s
Contains(sub, s) == Find(s, sub, 1) # 0

\* ------------------------------------------------------------- validators.py

\* '.' in filename and filename.rsplit('.', 1)[1].lower() in allowed_extensions
validate_file_type(filename, allowed_extensions) ==
    /\ Contains(".", filename)
    /\ LET dot == RFind(filename, ".", Len(filename))
       IN  Lower(SubSeq(filename, dot + 1, Len(filename))) \in allowed_extensions

validate_file_size(file_size, max_size) == file_size <= max_size

validate_batch_size(files, max_files) == Len(files) <= max_files

\* the loop of validate_files: the first file that fails a check decides
validate_each(files) ==
    LET fails == { k \in 1..Len(files) :
                     \/ ~validate_file_type(files[k].name, ALLOWED_EXTENSIONS)
                     \/ ~validate_file_size(files[k].size, MAX_FILE_SIZE) }
    IN  IF fails = {} THEN <<TRUE, "">>
        ELSE LET k == CHOOSE i \in fails : \A j \in fails : i <= j
             IN  IF ~validate_file_type(files[k].name, ALLOWED_EXTENSIONS)
                 THEN <<FALSE, "Invalid file type: " \o files[k].name>>
                 ELSE <<FALSE, "File too large: " \o files[k].name>>

\* validate_files(files, config) -> (ok, reason)
validate_files(files) ==
    IF Len(files) = 0 THEN <<FALSE, "No files uploaded">>
    ELSE IF ~validate_batch_size(files, MAX_IMAGES)
         THEN <<FALSE, "Maximum " \o ToString(MAX_IMAGES) \o " images allowed per batch">>
    ELSE validate_each(files)

\* ------------------------------------------------------------------- files

\* An uploaded file: its name, its declared size and what PIL makes of its
\* bytes: the format Image.open reports ("JPEG", "PNG", "GIF", ...), or ""
\* when Image.open raises on them.
UploadedFile(name, size, format) ==
    [present |-> TRUE, name |-> name, size |-> size, format |-> format]

\* None in the place of a file: falsy, and without a name attribute
NoFile == [present |-> FALSE, name |-> "", size |-> 0, format |-> ""]

\* str(e) of the PIL.UnidentifiedImageError of Image.open
CannotIdentify == "cannot identify image file"

\* --------------------------------------------------- GeminiProcessor helpers

\* _validate_image without its size check
_validate_image_without_size_check(image_file) ==
    IF ~image_file.present THEN Some("No image file provided")
    ELSE IF image_file.format = ""
         THEN Some("Error validating image: " \o CannotIdentify)
    ELSE IF Lower(image_file.format) \notin SUPPORTED_FORMATS
         THEN Some("Unsupported image format: " \o image_file.format)
    ELSE None

\* _validate_image(image_file) -> Optional[str]
_validate_image(image_file) ==
    IF ~image_file.present THEN Some("No image file provided")
    ELSE IF image_file.size > 20 * 1024 * 1024
         THEN Some("File " \o image_file.name \o " exceeds 20MB size limit")
    ELSE IF image_file.format = ""
         THEN Some("Error validating image: " \o CannotIdentify)
    ELSE IF Lower(image_file.format) \notin SUPPORTED_FORMATS
         THEN Some("Unsupported image format: " \o image_file.format)
    ELSE None

\* _create_error_response(filename, error_message)
_create_error_response(filename, error_message) ==
    [ filename |-> filename,
      extracted_text |-> Some("Error: " \o error_message),
      description |-> None ]

\* ------------------------------------------------- _format_medical_data

\* str.upper() on the first letter of the patterns of the formatter
UpperChar(c) ==
    CASE c = "a" -> "A" [] c = "i" -> "I" [] c = "m" -> "M" [] c = "n" -> "N"
      [] c = "p" -> "P" [] c = "s" -> "S"
      [] OTHER -> c

\* str.title() of a word of lower-case letters
Title(s) == IF s = "" THEN "" ELSE UpperChar(SubSeq(s, 1, 1)) \o SubSeq(s, 2, Len(s))

IsSpace(c) == c \in {" ", "\t", "\n", "\r"}

RECURSIVE LStrip(_)
LStrip(s) ==
    IF s # "" /\ IsSpace(SubSeq(s, 1, 1)) THEN LStrip(SubSeq(s, 2, Len(s))) ELSE s

RECURSIVE RStrip(_)
RStrip(s) ==
    IF s # "" /\ IsSpace(SubSeq(s, Len(s), Len(s)))
    THEN RStrip(SubSeq(s, 1, Len(s) - 1)) ELSE s

\* str.strip()
Strip(s) == RStrip(LStrip(s))

\* str.split(sep): the pieces of s between the occurrences of sep, left to right
RECURSIVE Split(_, _)
Split(s, sep) ==
    LET i == Find(s, sep, 1)
    IN  IF i = 0 THEN <<s>>
        ELSE <<SubSeq(s, 1, i - 1)>> \o Split(SubSeq(s, i + Len(sep), Len(s)), sep)

\* the structured_data of _format_medical_data: the categories in dict order
CATEGORIES ==
    << [name |-> "Patient Information", fields |-> <<"Name", "Age", "Sex", "ID">>],
       [name |-> "Contact Details", fields |-> <<"Address", "Mobile", "Phone">>],
       [name |-> "Medical Records",
        fields |-> <<"Test ID", "Lab ID", "Record Number", "Vehicle Registration">>] >>

\* the patterns tried on a line without a colon, in order
PATTERNS == <<"name", "age", "sex", "address", "mobile", "phone", "id">>

\* lines = [line.strip() for line in text.split('\n') if line.strip()]
FormLines(text) ==
    LET raw == Split(text, "\n")
        stripped == [i \in 1..Len(raw) |-> Strip(raw[i])]
    IN  SelectSeq(stripped, LAMBDA l : l # "")

\* the for ... else over the patterns: the first pattern (from index k) that
\* occurs in line_lower and splits it in exactly two parts gives (field, value)
RECURSIVE PatternSplitAnyParts(_, _)
\* PatternSplit with len(parts) >= 2 in the place of len(parts) == 2
PatternSplitAnyParts(line_lower, k) ==
    IF k > Len(PATTERNS) THEN None
    ELSE LET parts == Split(line_lower, PATTERNS[k])
         IN  IF Contains(PATTERNS[k], line_lower) /\ Len(parts) >= 2
             THEN Some(<<Title(PATTERNS[k]), parts[2]>>)
             ELSE PatternSplitAnyParts(line_lower, k + 1)

RECURSIVE PatternSplit(_, _)
PatternSplit(line_lower, k) ==
    IF k > Len(PATTERNS) THEN None
    ELSE LET parts == Split(line_lower, PATTERNS[k])
         IN  IF Contains(PATTERNS[k], line_lower) /\ Len(parts) = 2
             THEN Some(<<Title(PATTERNS[k]), parts[2]>>)
             ELSE PatternSplit(line_lower, k + 1)

\* the (field, value) of a line, stripped, or None when the line is skipped
FieldValue(line) ==
    IF Contains(":", line)
    THEN LET i == Find(line, ":", 1)
         IN  Some(<<Strip(SubSeq(line, 1, i - 1)), Strip(SubSeq(line, i + 1, Len(line)))>>)
    ELSE LET fv == PatternSplit(Lower(line), 1)
         IN  IF fv = None THEN None ELSE Some(<<Strip(fv[1][1]), Strip(fv[1][2])>>)

\* any(f.lower() in field_lower for f in fields)
AnyFieldIn(fields, s_lower) ==
    \E i \in 1..Len(fields) : Contains(Lower(fields[i]), s_lower)

\* the if / elif chain: the index of the first category that matches, 0 if none
CategoryOf(field) ==
    LET field_lower == Lower(field)
        hits == { c \in 1..Len(CATEGORIES) : AnyFieldIn(CATEGORIES[c].fields, field_lower) }
    IN  IF hits = {} THEN 0 ELSE CHOOSE c \in hits : \A d \in hits : c <= d

\* data[field] = value on a dict kept as the sequence of its (key, value)
\* pairs in insertion order
DictSet(data, field, value) ==
    IF \E i \in 1..Len(data) : data[i][1] = field
    THEN [i \in 1..Len(data) |-> IF data[i][1] = field THEN <<field, value>> ELSE data[i]]
    ELSE Append(data, <<field, value>>)

\* the loop over the lines: the data of the three categories after lines[k..]
RECURSIVE Categorize(_, _, _)
Categorize(lines, k, data) ==
    IF k > Len(lines) THEN data
    ELSE LET fv == FieldValue(lines[k])
             c == IF fv = None THEN 0 ELSE CategoryOf(fv[1][1])
         IN  IF c = 0 THEN Categorize(lines, k + 1, data)
             ELSE Categorize(lines, k + 1,
                             [data EXCEPT ![c] = DictSet(@, fv[1][1], fv[1][2])])

\* the sort key: the index of the first field of the category found in x,
\* len(fields) if none (indices from 1 here)
FieldRank(x, fields) ==
    LET hits == { i \in 1..Len(fields) : Contains(Lower(fields[i]), Lower(x)) }
    IN  IF hits = {} THEN Len(fields) + 1 ELSE CHOOSE i \in hits : \A j \in hits : i <= j

\* sorted(..., key=...): stable, so by rank and within a rank in dict order
RECURSIVE SortedFrom(_, _, _)
SortedFrom(data, fields, r) ==
    IF r > Len(fields) + 1 THEN <<>>
    ELSE SelectSeq(data, LAMBDA kv : FieldRank(kv[1], fields) = r)
         \o SortedFrom(data, fields, r + 1)

RECURSIVE Rows(_, _)
Rows(pairs, k) ==
    IF k > Len(pairs) THEN ""
    ELSE "| " \o pairs[k][1] \o " | " \o pairs[k][2] \o " |\n" \o Rows(pairs, k + 1)

TableHead(title) ==
    "\n### " \o title \o "\n\n" \o "| Field | Value |\n" \o "|-------|--------|\n"

\* the tables of the categories c.. that hold data
RECURSIVE CategoryTables(_, _)
CategoryTables(data, c) ==
    IF c > Len(CATEGORIES) THEN ""
    ELSE (IF data[c] = <<>> THEN ""
          ELSE TableHead(CATEGORIES[c].name)
               \o Rows(SortedFrom(data[c], CATEGORIES[c].fields, 1), 1) \o "\n")
         \o CategoryTables(data, c + 1)

\* the lines with a colon in which no field of any category occurs
Unmatched(lines) ==
    SelectSeq(lines, LAMBDA line :
        /\ Contains(":", line)
        /\ ~\E c \in 1..Len(CATEGORIES) : AnyFieldIn(CATEGORIES[c].fields, Lower(line)))

\* line.split(':', 1) of each unmatched line, stripped
UnmatchedPairs(lines) ==
    LET u == Unmatched(lines)
    IN  [k \in 1..Len(u) |->
            LET i == Find(u[k], ":", 1)
            IN  <<Strip(SubSeq(u[k], 1, i - 1)), Strip(SubSeq(u[k], i + 1, Len(u[k])))>>]

\* _format_medical_data(text)
_format_medical_data(text) ==
    LET lines == FormLines(text)
        data == Categorize(lines, 1, [c \in 1..Len(CATEGORIES) |-> <<>>])
        unmatched == UnmatchedPairs(lines)
        formatted_text ==
            CategoryTables(data, 1)
            \o (IF unmatched = <<>> THEN ""
                ELSE TableHead("Additional Information") \o Rows(unmatched, 1))
    IN  IF Strip(formatted_text) # "" THEN formatted_text ELSE text

\* ------------------------------------------------------------ the inputs

\* The files of the model: two that _validate_image accepts (one of them at
\* the size limit, one with a name validate_file_type rejects) and one for
\* each way it rejects a file.
UploadedFiles ==
    { UploadedFile("b.JPG", MAX_FILE_SIZE, "JPEG"),
      UploadedFile("c.txt", 1024, "PNG"),
      UploadedFile("a.png", MAX_FILE_SIZE + 1, "PNG"),
      UploadedFile("a.png", 1024, "GIF"),
      UploadedFile("d.tar.WebP", 1024, "") }

\* what a caller of process_images may put in the list
ImageFiles == UploadedFiles \cup {NoFile}

\* the lists of at most n elements of S
ListsUpTo(S, n) == UNION { [1..k -> S] : k \in 0..n }

\* what st.file_uploader can return: short lists, and lists of MAX_IMAGES and
\* MAX_IMAGES + 1 copies of a file
Uploads ==
    ListsUpTo(UploadedFiles, MaxBatch)
    \cup { [i \in 1..k |-> f] : k \in {MAX_IMAGES, MAX_IMAGES + 1}, f \in UploadedFiles }

\* the descriptions argument of process_images: None, or a dict (the set of
\* its (key, value) pairs)
DescriptionArgs ==
    { None,
      Some({ <<"b.JPG", "lab report">>, <<"c.txt", "">> }) }

\* dict.get(key, default)
DictGet(d, key, default) ==
    IF \E kv \in d : kv[1] = key THEN (CHOOSE kv \in d : kv[1] = key)[2] ELSE default

\* What self.model.generate_content does on one call: it returns a response
\* with text, raises, returns None, or returns a response whose text is "".
RemoteTexts == { "Name: John Smith\nNotes: fine", "hello world" }

RemoteOutcomes ==
    { [kind |-> "text", text |-> t] : t \in RemoteTexts }
    \cup
    { [kind |-> "raise", text |-> "429 quota exceeded"],
      [kind |-> "none", text |-> ""],
      [kind |-> "empty", text |-> ""] }

\* dict (the set of its (key, value) pairs): its keys, d[key], {**a, **b}
DictKeys(d) == { kv[1] : kv \in d }
DictItem(d, key) == (CHOOSE kv \in d : kv[1] = key)[2]
DictMerge(a, b) == { kv \in a : kv[1] \notin DictKeys(b) } \cup b

\* the custom_columns a caller gives to the constructor and to set_column_names
CustomColumnArgs ==
    { {},
      { <<"filename", "File Name">>, <<"extracted_text", "OCR Text">> },
      { <<"status", "State">>, <<"description", "Notes">> } }

\* The lines of the texts handed to _format_medical_data directly: with a
\* colon and a field of each category, of no category, of no category with a
\* keyword in the value; without a colon, with a keyword once, twice, never.
FormLineChoices ==
    { "Name: John Smith", "Mobile: 555-1234", "Notes: fine",
      "Notes: patient name unknown",
      "name john", "no name, no name", " hello world" }

\* '\n'.join(lines)
RECURSIVE JoinLines(_)
JoinLines(lines) ==
    IF lines = <<>> THEN ""
    ELSE IF Len(lines) = 1 THEN lines[1]
    ELSE lines[1] \o "\n" \o JoinLines(Tail(lines))

\* the texts handed to _format_medical_data directly
FormatterTexts == { JoinLines(ls) : ls \in ListsUpTo(FormLineChoices, MaxLines) }

\* str(e) of an exception raised by a streamlit call
SinkError == "streamlit call failed"

\* str(e) of the AttributeError of None.name
NoNameError == "'NoneType' object has no attribute 'name'"

\* -------------------------------------------------------------- the state

VARIABLES
    entry,           \* who drives the run: "api" (a call of process_images),
                     \* "app" (main of app.py), "validators" (validate_files),
                     \* "columns" (calls of set_column_names), "formatter"
                     \* (a call of _format_medical_data)
    image_files,     \* the list of files of the run
    descriptions,    \* the descriptions argument of process_images
    max_retries,     \* GeminiProcessor.max_retries
    output_columns,  \* GeminiProcessor.output_columns
    separate_sheets, \* GeminiProcessor.separate_sheets
    pc,              \* the position of the run
    idx,             \* process_images: idx of the for loop
    attempt,         \* _process_single_image: attempt of the for loop
    description,     \* process_images: description of the current image
    results,         \* process_images: results
    ret,             \* None until process_images returns, then Some(results)
    containers,      \* process_images: the two st.empty() containers are
                     \* "absent", "created" or "cleared"
    log,             \* the calls made for the current image, in order: the
                     \* progress update, the validation, the calls of the
                     \* remote model and of time.sleep
    upload,          \* None until handle_file_upload returns, then
                     \* Some(<<uploaded_files or None, descriptions>>)
    st_errors,       \* the messages given to st.error, in order
    size_checks,     \* handle_file_upload: per-file size checks made
    validation,      \* None until validate_files returns, then Some(<<ok, reason>>)
    custom_columns,  \* None until set_column_names is called, then
                     \* Some(custom_columns of the latest call)
    raw_text,        \* the text handed to _format_medical_data
    formatted        \* None until _format_medical_data returns, then Some(its result)

vars == << entry, image_files, descriptions, max_retries, output_columns,
           separate_sheets, pc, idx, attempt, description, results, ret,
           containers, log, upload, st_errors, size_checks, validation,
           custom_columns, raw_text, formatted >>

config == << max_retries, output_columns, separate_sheets >>
inputs == << entry, image_files, descriptions >>
appvars == << upload, st_errors, size_checks, validation, custom_columns, raw_text,
             formatted >>

\* GeminiProcessor.DEFAULT_COLUMNS
DEFAULT_COLUMNS ==
    { <<"filename", "Filename">>,
      <<"extracted_text", "Extracted Text">>,
      <<"description", "Image Description">> }

\* an entry of log: the call op made for image i, with what describes it
Event(op, i, info, detail) == [op |-> op, idx |-> i, info |-> info, detail |-> detail]

\* GeminiProcessor(max_retries=.., custom_columns=..) constructed, nothing
\* called yet
Init ==
    /\ entry \in {"api", "app", "validators", "columns", "formatter"}
    /\ image_files \in (CASE entry = "api" -> ListsUpTo(ImageFiles, MaxBatch)
                          [] entry \in {"app", "validators"} -> Uploads
                          [] OTHER -> {<<>>})
    /\ descriptions \in (IF entry = "api" THEN DescriptionArgs ELSE {None})
    /\ max_retries \in (IF entry = "api" THEN 0..MaxRetries ELSE {3})
    /\ output_columns \in (IF entry = "columns"
                           THEN { DictMerge(DEFAULT_COLUMNS, c) : c \in CustomColumnArgs }
                           ELSE { DictMerge(DEFAULT_COLUMNS, {}) })
    /\ separate_sheets = FALSE
    /\ pc = "idle"
    /\ idx = 0
    /\ attempt = 0
    /\ description = ""
    /\ results = <<>>
    /\ ret = None
    /\ containers = "absent"
    /\ log = <<>>
    /\ upload = None
    /\ st_errors = <<>>
    /\ size_checks = 0
    /\ validation = None
    /\ custom_columns = None
    /\ raw_text \in (IF entry = "formatter" THEN FormatterTexts ELSE {""})
    /\ formatted = None

\* ---------------------------------------------------------- process_images

\* getattr(image_file, 'name', f'image_{idx}')
NameOr(image_file, i) ==
    IF image_file.present THEN image_file.name ELSE "image_" \o ToString(i)

\* the log entry of a call of _create_error_response
ErrorEvent(filename, message) == Event("_create_error_response", idx, filename, message)

\* AfterResult with the loop going on before the result is appended
AfterResultNotAppended(result) ==
    /\ results' = results
    /\ attempt' = 0
    /\ IF idx < Len(image_files)
       THEN /\ idx' = idx + 1
            /\ pc' = "progress"
       ELSE /\ idx' = idx
            /\ pc' = "clear"

\* results.append(result), and the loop of process_images goes on: to the
\* next image, or past the loop to the clearing of the progress indicators
AfterResult(result) ==
    /\ results' = Append(results, result)
    /\ attempt' = 0
    /\ IF idx < Len(image_files)
       THEN /\ idx' = idx + 1
            /\ pc' = "progress"
       ELSE /\ idx' = idx
            /\ pc' = "clear"

\* ProcessImagesEnter with the containers created before the test of the list
ProcessImagesEnterContainersFirst ==
    /\ pc = "idle"
    /\ entry = "api"
    /\ \/ /\ containers' = "created"
          /\ IF Len(image_files) = 0
             THEN /\ ret' = Some(<<>>)
                  /\ pc' = "returned"
                  /\ idx' = idx
             ELSE /\ idx' = 1
                  /\ pc' = "progress"
                  /\ ret' = ret
       \/ /\ pc' = "raised"
          /\ UNCHANGED << idx, ret, containers >>
    /\ UNCHANGED << inputs, config, appvars, attempt, description, results, log >>

\* process_images, to the start of its loop: the empty list is returned at
\* once; otherwise the two st.empty() containers are created, and an
\* exception of st.empty() leaves process_images
ProcessImagesEnter ==
    /\ pc = "idle"
    /\ entry = "api"
    /\ IF Len(image_files) = 0
       THEN /\ ret' = Some(<<>>)
            /\ pc' = "returned"
            /\ UNCHANGED << idx, containers >>
       ELSE \/ /\ containers' = "created"
               /\ idx' = 1
               /\ pc' = "progress"
               /\ ret' = ret
            \/ /\ pc' = "raised"
               /\ UNCHANGED << idx, ret, containers >>
    /\ UNCHANGED << inputs, config, appvars, attempt, description, results, log >>

\* the except branch of the loop of process_images, for an exception with
\* str(e) = message raised after the calls in done
ExceptBranch(done, message) ==
    LET filename == NameOr(image_files[idx], idx)
        error_message == "Unexpected error: " \o message
    IN  /\ log' = done \o <<ErrorEvent(filename, error_message)>>
        /\ AfterResult(Some(_create_error_response(filename, error_message)))

\* The start of the try block for image idx: progress_container.progress,
\* status_container.text and descriptions.get. An exception here (of a
\* streamlit call, or of image_file.name when the element is None) goes to
\* the except branch.
ProgressUpdate ==
    /\ pc = "progress"
    /\ LET image_file == image_files[idx]
       IN  \/ /\ ExceptBranch(<<Event("progress", idx, "raise", SinkError)>>, SinkError)
              /\ UNCHANGED description
           \/ /\ ~image_file.present
              /\ ExceptBranch(<<Event("progress", idx, "ok", "")>>, NoNameError)
              /\ UNCHANGED description
           \/ /\ image_file.present
              /\ log' = <<Event("progress", idx, "ok", "")>>
              /\ description' = DictGet(IF descriptions = None THEN {} ELSE descriptions[1],
                                        image_file.name, "")
              /\ pc' = "validate"
              /\ UNCHANGED << idx, attempt, results >>
    /\ UNCHANGED << inputs, config, appvars, ret, containers >>

\* HasAttempt with range(self.max_retries + 1)
HasAttemptInclusive(a, retries) == a <= retries

\* for attempt in range(self.max_retries): the loop has an iteration a to run
HasAttempt(a, retries) == a < retries

\* _process_single_image, up to its retry loop: the validation error, if
\* any, is returned as an error result. With no iteration of the retry loop
\* to run the function ends without a return statement: the caller gets None.
ValidateImage ==
    /\ pc = "validate"
    /\ LET image_file == image_files[idx]
           validation_error == _validate_image(image_file)
           validated == Append(log, Event("_validate_image", idx,
                                          IF validation_error = None THEN "None" ELSE "str",
                                          IF validation_error = None THEN ""
                                          ELSE validation_error[1]))
       IN  IF validation_error # None /\ validation_error[1] # ""
           THEN /\ log' = Append(validated, ErrorEvent(image_file.name, validation_error[1]))
                /\ AfterResult(Some(_create_error_response(image_file.name,
                                                           validation_error[1])))
           ELSE /\ log' = validated
                /\ IF HasAttempt(0, max_retries)
                   THEN /\ pc' = "attempt"
                        /\ attempt' = 0
                        /\ UNCHANGED << idx, results >>
                   ELSE AfterResult(None)
    /\ UNCHANGED << inputs, config, appvars, ret, description, containers >>

\* HasText with the test of response.text left out
HasTextAnyResponse(outcome) == outcome.kind \in {"text", "empty"}

\* response and response.text are truthy
HasText(outcome) == outcome.kind = "text" /\ outcome.text # ""

\* str(e) of the exception the try block of the retry loop ends with
AttemptError(outcome) ==
    IF outcome.kind = "raise" THEN outcome.text ELSE "No text extracted from the image"

\* IsLastAttempt off by one: attempt == self.max_retries
IsLastAttemptOffByOne(a, retries) == a = retries

\* attempt == self.max_retries - 1
IsLastAttempt(a, retries) == a = retries - 1

\* self._format_medical_data(response.text), for the texts of the model
FormattedText == [t \in RemoteTexts \cup {""} |-> _format_medical_data(t)]

\* the dict _process_single_image returns on success
SuccessResult(image_file, text, desc) ==
    [ filename |-> image_file.name,
      extracted_text |-> Some(FormattedText[text]),
      description |-> Some(desc) ]

\* One iteration of the retry loop, to its return or to the sleep: the call
\* of the remote model, the formatting of its text, and the except branch.
Attempt ==
    /\ pc = "attempt"
    /\ \E outcome \in RemoteOutcomes :
         LET image_file == image_files[idx]
             called == Append(log, Event("generate_content", idx, outcome.kind, outcome.text))
         IN  IF HasText(outcome)
             THEN /\ log' = called
                  /\ AfterResult(Some(SuccessResult(image_file, outcome.text, description)))
             ELSE IF IsLastAttempt(attempt, max_retries)
                  THEN /\ log' = Append(called, ErrorEvent(image_file.name,
                                                           AttemptError(outcome)))
                       /\ AfterResult(Some(_create_error_response(image_file.name,
                                                                  AttemptError(outcome))))
                  ELSE /\ log' = called
                       /\ pc' = "sleep"
                       /\ UNCHANGED << idx, attempt, results >>
    /\ UNCHANGED << inputs, config, appvars, ret, description, containers >>

\* time.sleep(1), and on to the next iteration of the retry loop
Sleep ==
    /\ pc = "sleep"
    /\ log' = Append(log, Event("sleep", idx, "1", ""))
    /\ IF HasAttempt(attempt + 1, max_retries)
       THEN /\ attempt' = attempt + 1
            /\ pc' = "attempt"
            /\ UNCHANGED << idx, results >>
       ELSE AfterResult(None)
    /\ UNCHANGED << inputs, config, appvars, ret, description, containers >>

\* past the loop: the progress indicators are cleared and results returned;
\* an exception of a container's empty() leaves process_images
ProcessImagesReturn ==
    /\ pc = "clear"
    /\ \/ /\ containers' = "cleared"
          /\ ret' = Some(results)
          /\ pc' = "returned"
       \/ /\ pc' = "raised"
          /\ UNCHANGED << ret, containers >>
    /\ UNCHANGED << inputs, config, appvars, idx, attempt, description, results, log >>

\* ------------------------------------------------------- utils.py, app.py

\* the loop of handle_file_upload: the index of the first file above the
\* size limit, 0 if none
FirstTooLarge(files) ==
    LET big == { k \in 1..Len(files) : files[k].size > 20 * 1024 * 1024 }
    IN  IF big = {} THEN 0 ELSE CHOOSE i \in big : \A j \in big : i <= j

\* handle_file_upload with the loop over the files before the test of their
\* number
handle_file_upload_sizes_first(uploaded_files) ==
    IF Len(uploaded_files) = 0
    THEN [files |-> Some(uploaded_files), descriptions |-> {}, errors |-> <<>>, checks |-> 0]
    ELSE LET bad == FirstTooLarge(uploaded_files)
         IN  IF bad # 0
             THEN [files |-> None, descriptions |-> {},
                   errors |-> <<"File " \o uploaded_files[bad].name
                                \o " exceeds 20MB size limit">>,
                   checks |-> bad]
             ELSE IF Len(uploaded_files) > 100
             THEN [files |-> None, descriptions |-> {},
                   errors |-> <<"Maximum 100 images allowed per batch">>,
                   checks |-> Len(uploaded_files)]
             ELSE [files |-> Some(uploaded_files),
                   descriptions |-> { <<uploaded_files[k].name, "">> :
                                        k \in 1..Len(uploaded_files) },
                   errors |-> <<>>,
                   checks |-> Len(uploaded_files)]

\* handle_file_upload() on the list st.file_uploader returned: what it
\* returns (None in the place of the files when it rejects them), the
\* messages it gives to st.error and the number of files whose size it looked
\* at. The text areas return "" (nothing typed).
handle_file_upload(uploaded_files) ==
    IF Len(uploaded_files) = 0
    THEN [files |-> Some(uploaded_files), descriptions |-> {}, errors |-> <<>>, checks |-> 0]
    ELSE IF Len(uploaded_files) > 100
    THEN [files |-> None, descriptions |-> {},
          errors |-> <<"Maximum 100 images allowed per batch">>, checks |-> 0]
    ELSE LET bad == FirstTooLarge(uploaded_files)
         IN  IF bad # 0
             THEN [files |-> None, descriptions |-> {},
                   errors |-> <<"File " \o uploaded_files[bad].name
                                \o " exceeds 20MB size limit">>,
                   checks |-> bad]
             ELSE [files |-> Some(uploaded_files),
                   descriptions |-> { <<uploaded_files[k].name, "">> :
                                        k \in 1..Len(uploaded_files) },
                   errors |-> <<>>,
                   checks |-> Len(uploaded_files)]

\* str(e) of the ValueError of unpacking the pair handle_file_upload returns
\* into the three names of main
UnpackError == "not enough values to unpack (expected 3, got 2)"

\* main() of app.py from its call of handle_file_upload on: the pair it
\* returns is unpacked into uploaded_files, common_description and
\* should_process, which raises ValueError; the except branch of main reports
\* it. process_images is not reached from main.
Main ==
    /\ pc = "idle"
    /\ entry = "app"
    /\ LET r == handle_file_upload(image_files)
       IN  /\ upload' = Some(<<r.files, r.descriptions>>)
           /\ size_checks' = r.checks
           /\ st_errors' = st_errors \o r.errors
                           \o << "An error occurred: " \o UnpackError,
                                 "Please check the logs for more details" >>
    /\ pc' = "app_done"
    /\ UNCHANGED << inputs, config, validation, custom_columns, raw_text, formatted,
                    idx, attempt, description, results, ret, containers, log >>

\* a call of validate_files(files, AppConfig())
ValidateFiles ==
    /\ pc = "idle"
    /\ entry = "validators"
    /\ validation' = Some(validate_files(image_files))
    /\ pc' = "validated"
    /\ UNCHANGED << inputs, config, upload, st_errors, size_checks, custom_columns,
                    raw_text, formatted, idx, attempt, description, results, ret,
                    containers, log >>

\* ---------------------------------------------- the column names, the formatter

\* get_column_names()
get_column_names == output_columns

\* set_column_names(custom_columns), at any time between two runs
SetColumnNames ==
    /\ pc = "idle"
    /\ entry = "columns"
    /\ \E c \in CustomColumnArgs :
         /\ output_columns' = DictMerge(DEFAULT_COLUMNS, c)
         /\ custom_columns' = Some(c)
    /\ UNCHANGED << inputs, max_retries, separate_sheets, upload, st_errors,
                    size_checks, validation, raw_text, formatted, pc, idx, attempt,
                    description, results, ret, containers, log >>

\* a call of _format_medical_data(raw_text)
FormatMedicalData ==
    /\ pc = "idle"
    /\ entry = "formatter"
    /\ formatted' = Some(_format_medical_data(raw_text))
    /\ pc' = "formatted"
    /\ UNCHANGED << inputs, config, upload, st_errors, size_checks, validation,
                    custom_columns, raw_text, idx, attempt, description, results, ret,
                    containers, log >>

\* ------------------------------------------------------- the specification

Next ==
    \/ ProcessImagesEnter
    \/ ProgressUpdate
    \/ ValidateImage
    \/ Attempt
    \/ Sleep
    \/ ProcessImagesReturn
    \/ Main
    \/ ValidateFiles
    \/ SetColumnNames
    \/ FormatMedicalData

Spec == Init /\ [][Next]_vars

\* ---------------------------------------------------------------- claims

\* the positions of log that hold a call of op
Calls(op) == { p \in 1..Len(log) : log[p].op = op }

\* the number of calls of the remote model in log[1..p]
CallsUpTo(p) == Cardinality({ q \in 1..p : log[q].op = "generate_content" })

\* the image log is about has its result in results
Finished == log # <<>> /\ Len(results) = log[1].idx

\* the image log is about, and its result once Finished
LogItem == image_files[log[1].idx]
LogResult == results[log[1].idx]

\* _validate_image was called for the image log is about
Validated == Calls("_validate_image") # {}

\* the dict an error result is in this code, for a filename and a message
ErrorDict(filename, message) ==
    [ filename |-> filename,
      extracted_text |-> Some("Error: " \o message),
      description |-> None ]

HasField(r, f) == f \in DOMAIN r

\* a call of the remote model that gave no text: it raised, returned None or
\* returned a response with empty text
FailedCall(e) == e.op = "generate_content" /\ e.info \in {"raise", "none", "empty"}

\* the message of the failure of a failed call
FailureMessage(e) ==
    IF e.info = "raise" THEN e.detail ELSE "No text extracted from the image"

\* C1: when process_images returns, the list has one result per input item
\* and the i-th result carries the filename of the i-th item (of every item
\* that has a filename).
C1_OneResultPerItemInOrder ==
    ret # None =>
        /\ Len(ret[1]) = Len(image_files)
        /\ \A i \in 1..Len(image_files) :
              image_files[i].present =>
                  /\ ret[1][i] # None
                  /\ ret[1][i][1].filename = image_files[i].name

C3_NeverRaises ==
    /\ pc # "raised"
    /\ (Finished /\ log[1].info = "raise") =>
           LogResult = Some(ErrorDict(NameOr(LogItem, log[1].idx),
                                      "Unexpected error: " \o log[1].detail))
    /\ ret # None => Len(ret[1]) = Len(image_files)

\* the cases of C4: the declared size is above 20 MiB, the bytes cannot be
\* decoded, or their format is not jpeg, png or webp
SizeExceeded(f) == f.size > 20 * 1024 * 1024
Undecodable(f) == f.format = ""
UnsupportedFormat(f) == f.format # "" /\ Lower(f.format) \notin {"jpeg", "png", "webp"}

\* C4: an image that fails validation at extraction time gets the error
\* result with the validation reason, with no call of the remote model and
\* no sleep; validation runs at most once per image.
C4_ValidationShortCircuits ==
    /\ Cardinality(Calls("_validate_image")) <= 1
    /\ ( /\ Validated
         /\ SizeExceeded(LogItem) \/ Undecodable(LogItem) \/ UnsupportedFormat(LogItem) )
       =>
           /\ Finished
           /\ Calls("generate_content") = {}
           /\ Calls("sleep") = {}
           /\ LogResult # None
           /\ LogResult[1].filename = LogItem.name
           /\ LogResult[1].description = None
           /\ LogResult[1].extracted_text =
                 Some("Error: " \o
                      (IF SizeExceeded(LogItem)
                       THEN "File " \o LogItem.name \o " exceeds 20MB size limit"
                       ELSE IF Undecodable(LogItem)
                       THEN "Error validating image: cannot identify image file"
                       ELSE "Unsupported image format: " \o LogItem.format))

\* C4 happens: the second image of a batch is above the size limit, after a
\* first one of an unsupported format
C4_Witness ==
    /\ Finished
    /\ Validated
    /\ log[1].idx = 2
    /\ UnsupportedFormat(image_files[1])
    /\ SizeExceeded(image_files[2])
    /\ ~Undecodable(image_files[2])

\* C5: for a file whose extension (compared in lower case) is not allowed,
\* whatever its bytes, the remote model is never called, and the result
\* record it gets is an error result whose reason names the invalid file
\* type.
C5_InvalidExtensionRejected ==
    ( /\ Validated
      /\ ~validate_file_type(LogItem.name, ALLOWED_EXTENSIONS) )
    =>
        /\ Calls("generate_content") = {}
        /\ (Finished /\ LogResult # None) =>
              /\ LogResult[1].description = None
              /\ Contains("Invalid file type", LogResult[1].extracted_text[1])


\* the reason of a batch above the maximum
BatchTooLarge == "Maximum 100 images allowed per batch"

\* C6: a batch of more than MAX_IMAGES files is rejected with the
\* batch-too-large reason before any per-file check: handle_file_upload
\* returns None in the place of the files, its first st.error is the reason,
\* it has looked at no file's size, and nothing of process_images has run (no
\* container, no progress update, no call of the remote model, no result);
\* validate_files gives the same reason whatever the files are.
C6_BatchTooLargeRejected ==
    /\ (entry = "app" /\ upload # None /\ Len(image_files) > MAX_IMAGES) =>
          /\ upload[1][1] = None
          /\ Len(st_errors) >= 1
          /\ st_errors[1] = BatchTooLarge
          /\ size_checks = 0
          /\ containers = "absent"
          /\ log = <<>>
          /\ results = <<>>
          /\ ret = None
    /\ (entry = "validators" /\ validation # None /\ Len(image_files) > MAX_IMAGES) =>
          validation[1] = <<FALSE, BatchTooLarge>>

\* C6 happens: main has handled a batch of MAX_IMAGES + 1 files, each of
\* which is also above the size limit
C6_Witness ==
    /\ entry = "app"
    /\ pc = "app_done"
    /\ Len(image_files) = MAX_IMAGES + 1
    /\ image_files[1].size > MAX_FILE_SIZE
    /\ upload = Some(<<None, {}>>)

\* C7: process_images on the empty list returns the empty list and changes
\* nothing else: no container, no call, no result, no configuration change.
C7_EmptyBatchNoSideEffects ==
    [][ (pc = "idle" /\ entry = "api" /\ image_files = <<>>) =>
            /\ pc' = "returned"
            /\ ret' = Some(<<>>)
            /\ UNCHANGED << containers, log, results, config, appvars, inputs >> ]_vars

\* C7 happens: process_images has returned for the empty list
C7_Witness ==
    /\ entry = "api"
    /\ image_files = <<>>
    /\ pc = "returned"
    /\ ret = Some(<<>>)

\* C8: a call of the remote model that returns None or a response with empty
\* text is treated as one that raises: it uses up one of the max_retries
\* attempts; when it is not the last attempt a sleep and then another call
\* follow; when it is the last the image gets the error result with the
\* message of that failure. No result is a success with empty text.
C8_EmptyResponseIsFailure ==
    /\ \A p \in 1..Len(log) :
          FailedCall(log[p]) =>
              /\ CallsUpTo(p) <= max_retries
              /\ IF CallsUpTo(p) < max_retries
                 THEN /\ p = Len(log) => (pc = "sleep" /\ ~Finished)
                      /\ p < Len(log) => log[p + 1].op = "sleep"
                      /\ p + 1 < Len(log) => log[p + 2].op = "generate_content"
                 ELSE /\ Finished
                      /\ Len(log) = p + 1
                      /\ log[p + 1].op = "_create_error_response"
                      /\ LogResult = Some(ErrorDict(LogItem.name, FailureMessage(log[p])))
    /\ \A i \in 1..Len(results) :
          results[i] # None => results[i][1].extracted_text # Some("")

\* C8 happens: a None response, then after the sleep an empty response as
\* the last attempt
C8_Witness ==
    /\ Finished
    /\ max_retries = 2
    /\ \E p \in 1..Len(log) :
          /\ log[p].op = "generate_content" /\ log[p].info = "none"
          /\ log[p + 1].op = "sleep"
          /\ log[p + 2].op = "generate_content" /\ log[p + 2].info = "empty"
    /\ LogResult = Some(ErrorDict(LogItem.name, "No text extracted from the image"))

\* C9: the record _create_error_response(filename, error_message) returns
\* has that filename, error = error_message, status = 'error', and
\* extracted_text and confidence_score None.
C9_ErrorResponseShape ==
    (Finished /\ log[Len(log)].op = "_create_error_response") =>
        LET call == log[Len(log)]
            r == LogResult[1]
        IN  /\ r.filename = call.info
            /\ HasField(r, "error") /\ r.error = call.detail
            /\ HasField(r, "status") /\ r.status = "error"
            /\ HasField(r, "extracted_text") /\ r.extracted_text = None
            /\ HasField(r, "confidence_score") /\ r.confidence_score = None

\* C10: when the image passes validation and the remote model returns
\* non-empty text, the record has status 'success', the filename, and
\* extracted_text and processing_time that are not None.
C10_SuccessShape ==
    ( /\ Finished
      /\ log[Len(log)].op = "generate_content"
      /\ log[Len(log)].info = "text"
      /\ log[Len(log)].detail # "" )
    =>
        /\ LogResult # None
        /\ LET r == LogResult[1]
           IN  /\ r.filename = LogItem.name
               /\ HasField(r, "extracted_text") /\ r.extracted_text # None
               /\ HasField(r, "status") /\ r.status = "success"
               /\ HasField(r, "processing_time") /\ r.processing_time # None

\* the fields the column mapping is to have a label for
CanonicalFields ==
    {"filename", "extracted_text", "description", "status", "error", "processing_time"}

\* C11: after set_column_names, get_column_names maps each key given in the
\* latest call to its custom label and every other canonical field to its
\* default label: 'status' to 'Status', and filename, extracted_text and
\* description to the labels of DEFAULT_COLUMNS.
C11_ColumnNamesAfterSet ==
    custom_columns # None =>
        LET given == custom_columns[1]
            columns == get_column_names
        IN  \A k \in CanonicalFields \cup DictKeys(given) :
              /\ k \in DictKeys(columns)
              /\ Cardinality({ kv \in columns : kv[1] = k }) = 1
              /\ IF k \in DictKeys(given)
                 THEN DictItem(columns, k) = DictItem(given, k)
                 ELSE /\ k = "status" => DictItem(columns, k) = "Status"
                      /\ k \in DictKeys(DEFAULT_COLUMNS) =>
                            DictItem(columns, k) = DictItem(DEFAULT_COLUMNS, k)

\* the number of pieces str.split(sub) cuts s in, less one
RECURSIVE Occurrences(_, _)
Occurrences(s, sub) ==
    LET i == Find(s, sub, 1)
    IN  IF i = 0 THEN 0 ELSE 1 + Occurrences(SubSeq(s, i + Len(sub), Len(s)), sub)

\* no line of t holds a colon
Colonless(t) == ~Contains(":", t)

\* some keyword pattern occurs exactly once in some line of t
KeywordOnce(t) ==
    LET raw == Split(t, "\n")
    IN  \E i \in 1..Len(raw) : \E k \in 1..Len(PATTERNS) :
            Occurrences(Lower(raw[i]), PATTERNS[k]) = 1

\* C12 as stated: for every text in which no line contains a colon,
\* _format_medical_data returns the text unchanged, also when lines contain
\* keywords like 'name', 'age' or 'id'.
C12_ColonlessUnchanged ==
    (formatted # None /\ Colonless(raw_text)) => formatted[1] = raw_text

\* C12 as amended: for every text in which no line contains a colon and no
\* line (lower-cased) is cut in exactly two pieces by one of the keyword
\* patterns, _format_medical_data returns the text unchanged.
C12_ColonlessUnsplitUnchanged ==
    (formatted # None /\ Colonless(raw_text) /\ ~KeywordOnce(raw_text)) =>
        formatted[1] = raw_text

\* a text of two lines without a colon, with a keyword twice in a line, has
\* been formatted
C12_Witness ==
    /\ formatted # None
    /\ Colonless(raw_text) /\ ~KeywordOnce(raw_text)
    /\ Contains("\n", raw_text)
    /\ Occurrences(Lower(raw_text), "name") >= 2

\* the titles of the tables of the formatter
Titles ==
    { CATEGORIES[c].name : c \in 1..Len(CATEGORIES) } \cup {"Additional Information"}

\* the first index at which sub occurs in s, 0 if none
IndexOf(s, sub) ==
    LET hits == { i \in 1..(Len(s) - Len(sub) + 1) : SubSeq(s, i, i + Len(sub) - 1) = sub }
    IN  IF hits = {} THEN 0 ELSE CHOOSE i \in hits : \A j \in hits : i <= j

\* the rows of the table with that title in the output, "" if it has none
Section(out, title) ==
    LET head == TableHead(title)
        i == IndexOf(out, head)
    IN  IF i = 0 THEN ""
        ELSE LET rest == SubSeq(out, i + Len(head), Len(out))
                 j == IndexOf(rest, "\n### ")
             IN  IF j = 0 THEN rest ELSE SubSeq(rest, 1, j)

\* field and value of a line with a colon, cut at its first colon
ColonField(line) == Strip(SubSeq(line, 1, Find(line, ":", 1) - 1))
ColonValue(line) == Strip(SubSeq(line, Find(line, ":", 1) + 1, Len(line)))

\* the table has the row of the line
InBucket(line, title, out) ==
    IndexOf(Section(out, title),
            "| " \o ColonField(line) \o " | " \o ColonValue(line) \o " |\n") # 0

\* the bucket the line is to be in: the first category whose keyword list
\* matches its field name, Additional Information if none does
BucketOf(line) ==
    LET c == CategoryOf(ColonField(line))
    IN  IF c = 0 THEN "Additional Information" ELSE CATEGORIES[c].name

\* C13: every line with a colon is in exactly one bucket of the output: the
\* first of Patient Information, Contact Details, Medical Records whose
\* keyword list matches its field name, else Additional Information; no
\* such line is absent from the output.
C13_ColonLineInOneBucket ==
    formatted # None =>
        LET lines == FormLines(raw_text)
        IN  \A i \in 1..Len(lines) :
              Contains(":", lines[i]) =>
                \A title \in Titles :
                    InBucket(lines[i], title, formatted[1]) <=> title = BucketOf(lines[i])

\* the calls made in a step: what the step added to log, or all of the new
\* log when the step began the log of the next image
NewEvents ==
    IF Len(log') >= Len(log) /\ SubSeq(log', 1, Len(log)) = log
    THEN SubSeq(log', Len(log) + 1, Len(log'))
    ELSE log'

\* C14: the items of a run are handled one at a time in input order. Each
\* item gets exactly one progress update, made before its calls of the
\* remote model: the updates are for items 1, 2, .. in turn and the last is
\* for the last item. A call of the remote model for item j is made only
\* when results holds the results of exactly the items before j, and results
\* only grows by appending.
C14_OneAtATimeInOrder ==
    /\ [](log # <<>> =>
            /\ log[1].op = "progress"
            /\ Calls("progress") = {1}
            /\ \A p \in 1..Len(log) : log[p].idx = log[1].idx)
    /\ []((ret # None /\ image_files # <<>>) =>
            (log # <<>> /\ log[1].idx = Len(image_files)))
    /\ [][ /\ results' = results \/ SubSeq(results', 1, Len(results)) = results
           /\ \A q \in 1..Len(NewEvents) :
                LET e == NewEvents[q]
                IN  /\ e.op = "generate_content" => e.idx = Len(results) + 1
                    /\ e.op = "progress" =>
                          /\ e.idx = Len(results) + 1
                          /\ e.idx = (IF log = <<>> THEN 1 ELSE log[1].idx + 1) ]_vars

\* C14 happens: the remote model has been called for the second item of a
\* batch, after a call for the first
C14_Witness ==
    /\ log # <<>>
    /\ log[1].idx = 2
    /\ Calls("generate_content") # {}
    /\ Len(results) >= 1
    /\ results[1] # None
    /\ results[1][1].description # None

\* a call of the remote model that returned non-empty text
SucceededCall(e) == e.op = "generate_content" /\ e.info = "text" /\ e.detail # ""

\* C15: the retry loop stops at the first success: a call that returned
\* non-empty text is the last entry of the item's log and the item has its
\* result. The remote model is called at most max_retries times for an item.
\* Every sleep directly follows a failed call that was not the max_retries-th
\* call, every such call is followed by a sleep before anything else is done
\* for the item, and so no sleep follows the final attempt or a success.
C15_StopsAtFirstSuccess ==
    log # <<>> =>
        LET calls == Calls("generate_content")
        IN  /\ Cardinality(calls) <= max_retries
            /\ \A p \in calls :
                  /\ SucceededCall(log[p]) \/ FailedCall(log[p])
                  /\ SucceededCall(log[p]) => (p = Len(log) /\ Finished)
                  /\ (FailedCall(log[p]) /\ CallsUpTo(p) < max_retries) =>
                        IF p = Len(log) THEN ~Finished ELSE log[p + 1].op = "sleep"
            /\ \A p \in Calls("sleep") :
                  /\ p > 1
                  /\ FailedCall(log[p - 1])
                  /\ CallsUpTo(p - 1) < max_retries
            /\ Finished =>
                  Cardinality(Calls("sleep"))
                    = Cardinality({ p \in calls :
                                      FailedCall(log[p]) /\ CallsUpTo(p) < max_retries })

\* C15 happens: the second call for an item succeeded, after a failed call
\* and a sleep
C15_Witness ==
    /\ Finished
    /\ Len(log) >= 3
    /\ SucceededCall(log[Len(log)])
    /\ log[Len(log) - 1].op = "sleep"
    /\ FailedCall(log[Len(log) - 2])
    /\ Cardinality(Calls("generate_content")) = 2

\* C16: for every max_retries the constructor accepts, 0 too, the result of
\* _process_single_image for an item that passed validation is a record with
\* filename and extracted_text, never None; so is every entry of the list
\* process_images returns.
C16_AlwaysAResultRecord ==
    /\ ( /\ Finished
         /\ \E p \in Calls("_validate_image") : log[p].info = "None" )
       =>
         /\ LogResult # None
         /\ HasField(LogResult[1], "filename")
         /\ HasField(LogResult[1], "extracted_text")
    /\ ret # None =>
         \A i \in 1..Len(ret[1]) :
            /\ ret[1][i] # None
            /\ HasField(ret[1][i][1], "filename")
            /\ HasField(ret[1][i][1], "extracted_text")

====
